---- MODULE Spec2Model ----
(***************************************************************************)
(* Moderation relay (webapp): presence map, per-server command queues and  *)
(* the offline global-action store, with the HTTP handlers that read and   *)
(* write them.  Every handler mutates the in-memory maps in its first      *)
(* synchronous segment (before any await), so one handler is one action.   *)
(*                                                                         *)
(* Conventions for request inputs: a missing / undefined / falsy field is  *)
(* the falsy value of its type ("" for strings, 0 for numbers); a payload  *)
(* that must be an array comes with a flag saying whether it is one.       *)
(* Command ids (crypto.randomUUID) are fresh: the model numbers them.      *)
(* The ban ledger (tables bans and join_attempts) is the database both the *)
(* webapp and the bot write; a statement on it succeeds or fails as a      *)
(* whole, and a failed statement rejects the handler that awaited it.      *)
(***************************************************************************)
EXTENDS Integers, Sequences, FiniteSets, TLC

(* ------------------------------ bounds --------------------------------- *)
\* requests handled in one run of the main specification
MaxCalls == 4
\* requests handled in one run of the ledger specification
MaxBanCalls == 3
\* requests handled in one run of the notification specification
MaxSinkCalls == 4
\* requests handled in one run of the replay specification
MaxGateCalls == 3
\* commands ever created in the delivery specification (more than one page)
MaxLiveCmds == 26
\* requests handled in one run of the audit specification
MaxAuditCalls == 4
\* commands ever created in the warn fields specification
MaxFieldCmds == 2
\* commands ever created in the main specification
MaxCmds == 2
\* commands ever created in the paging specification (more than one page)
MaxPageCmds == 27

(* --------------------------- program constants ------------------------- *)
\* 2 * 60 * 1000 ms
FreshMs == 120000
\* slice(0, 25)
PageSize == 25
\* Date.now() + 2 * 60 * 1000, the expiry of a seen nonce
NonceTtlMs == 120000
\* Math.abs(nowSec - tsNum) > 60
TsWindowSec == 60

(* ------------------------------ input sets ----------------------------- *)
Users == {1, 2}
UserIdInputs == {0} \cup Users
Servers == {"s1", "s2"}
ServerIdInputs == {""} \cup Servers
Actions == {"kick", "unban", "warn", "unwarn", "ban"}
ActionInputs == {""} \cup Actions
ReasonInputs == {""}
ModeratorInputs == {""}
ImageInputs == {""}
IntervalInputs == {0}
\* command ids a destination may name: those issued and one never issued
IdPool == 1..(MaxCmds + 1)
\* instants at which the clock is read: the start, and past the freshness window
ClockTimes == {0, FreshMs + 1}
\* the same with the edge of the freshness comparison on either side
EdgeTimes == {0, 1, FreshMs, FreshMs + 1}
\* process.env.NETWORK_ID_DEFAULT: unset, or the network of the deployment
EnvInputs == {"", "main"}
NetworkIdInputs == {"", "main"}
\* body.userId as sent; "" when the field is missing
RawUserIds == {"", "1", "2"}
BanReasonInputs == {"", "r2"}
BanModeratorInputs == {"", "m2"}
\* interaction.user.tag / msg.author.tag
ModTags == {"modA", "modB"}
\* a /ban/check request runs two statements: both succeed, or one of them fails
DbOutcomes == {"ok", "read_failed", "write_failed"}
\* body.imageA, body.imageB of /command when the caller sets them or not
FieldImages == {"", "imgX"}
\* body.interval of /command in hundredths; 0 when missing
FieldIntervals == {0, 50}
\* how the awaited insert into moderation_actions of src/index.js ends: it
\* succeeds; it fails and the framework answers the rejected handler with an
\* error; it fails and the rejection, which nothing handles, ends the process
AuditOutcomes == {"ok", "rejected", "exit"}
\* body.action of /command in the audit specification
AuditActions == {"kick", "ban"}
\* the authorization header
AuthInputs == {"S", "bad"}
\* the x-nonce header; "" when missing
NonceInputs == {"", "a", "b"}
\* the x-ts header; "" when missing
TsInputs == {"", "x", "0", "120"}
\* instants at which the clock is read around the timestamp window and the expiry
GateTimes == {0, 60000, 61000, 120000}

VARIABLES
  userToServer,   \* userId (string) -> [serverId, lastSeenMs]; DOMAIN = keys present
  serverQueues,   \* serverId -> sequence of commands in insertion order; DOMAIN = queues created
  globalActions,  \* userId (string) -> [type, reason, moderator, timestamp]; DOMAIN = keys present
  now,            \* Date.now(), in ms
  nextId,         \* number of the next fresh command id
  last,           \* the last request handled: its inputs and its response
  calls,          \* number of requests handled so far
  NETWORK_ID_DEFAULT,  \* process.env.NETWORK_ID_DEFAULT, "" when unset
  bans,           \* table bans: a set of rows, one per (network_id, user_id)
  joinAttempts,   \* table join_attempts: the rows in insertion order
  moderationActions,  \* table moderation_actions: the rows in insertion order
  polled,         \* the commands a destination got from its last poll and has not acknowledged
  seenNonces,     \* nonce -> expiry in ms; DOMAIN = keys present
  gate,           \* the headers of the last request and what verify did with it
  awaiting,       \* the responses of the handlers that await a notification
  replied,        \* the last response sent, once nothing was left to await
  sinkOutcome     \* how the last awaited notification ended

\* the in-memory maps of the relay
relay == <<userToServer, serverQueues, globalActions, nextId>>

\* the database
ledger == <<NETWORK_ID_DEFAULT, bans, joinAttempts, moderationActions>>

\* the request boundary: replay state and notifications in flight
boundary == <<seenNonces, gate, awaiting, replied, sinkOutcome, polled>>

vars == <<userToServer, serverQueues, globalActions, now, nextId, last, calls,
          NETWORK_ID_DEFAULT, bans, joinAttempts, moderationActions,
          seenNonces, gate, awaiting, replied, sinkOutcome, polled>>

(* ------------------------------ conversions ---------------------------- *)
\* String(n) for the user ids of the model
Str(n) == CASE n = 1 -> "1" [] n = 2 -> "2" [] OTHER -> "0"

\* Math.floor(Date.now() / 1000)
Seconds(ms) == ms \div 1000

\* x || dflt on strings
OrElse(x, dflt) == IF x = "" THEN dflt ELSE x

Min(a, b) == IF a <= b THEN a ELSE b

SeqFilterIds(q, ids) ==
  LET F[i \in 0..Len(q)] ==
        IF i = 0 THEN <<>>
        ELSE IF q[i].id \in ids THEN F[i - 1] ELSE Append(F[i - 1], q[i])
  IN F[Len(q)]

QueueIds(q) == {q[i].id : i \in 1..Len(q)}

(* ------------------------------- helpers ------------------------------- *)
\* getQueue(serverId): the queue map after the lazy creation
getQueue(queues, serverId) ==
  IF serverId \in DOMAIN queues THEN queues
  ELSE [s \in DOMAIN queues \cup {serverId} |->
          IF s = serverId THEN <<>> ELSE queues[s]]

\* mutant of Page: the slice starts at 1
PageFromOne(q) == SubSeq(q, 2, Min(PageSize, Len(q)))

\* mutant of Page: slice(25), what comes after the first 25
PageSkipFirst(q) == SubSeq(q, PageSize + 1, Len(q))

\* mutant of Page: the newest 25, slice(-25)
PageNewest(q) == SubSeq(q, Len(q) - Min(PageSize, Len(q)) + 1, Len(q))

\* Array.from(q.values()).slice(0, 25)
Page(q) == SubSeq(q, 1, Min(PageSize, Len(q)))

\* mutant of AckRemove: the delete misses the key (no String()), nothing is removed
AckRemoveNone(q, ackIds) == q

\* mutant of AckRemove: q.clear() once anything is acknowledged
AckRemoveAll(q, ackIds) == <<>>

\* for (const id of ackIds) q.delete(String(id))
AckRemove(q, ackIds) == SeqFilterIds(q, ackIds)

\* mutant of SetPresence: an existing entry is kept (first write wins)
SetPresenceIfAbsent(uts, listed, serverId, t) ==
  [k \in DOMAIN uts \cup listed |->
     IF k \in DOMAIN uts THEN uts[k] ELSE [serverId |-> serverId, lastSeenMs |-> t]]

\* userToServer.set(String(p.userId), { serverId, lastSeenMs: now }) for each player
SetPresence(uts, listed, serverId, t) ==
  [k \in DOMAIN uts \cup listed |->
     IF k \in listed THEN [serverId |-> serverId, lastSeenMs |-> t] ELSE uts[k]]

\* mutant of TakeOnce: the delivered action is not deleted
TakeOnceKeep(ga, key) == ga

\* globalActions.delete(userId)
TakeOnce(ga, key) == [k \in DOMAIN ga \ {key} |-> ga[k]]

\* mutant of IsStale: >= for >
IsStaleGe(entry, t) == t - entry.lastSeenMs >= FreshMs

\* Date.now() - entry.lastSeenMs > 2 * 60 * 1000
IsStale(entry, t) == t - entry.lastSeenMs > FreshMs

\* mutant of NeedsLive: every action needs a live mapping
NeedsLiveAll(action) == TRUE

\* mutant of NeedsLive: warn is forgotten
NeedsLiveUnwarnOnly(action) == action = "unwarn"

\* action === "warn" || action === "unwarn"
NeedsLive(action) == action \in {"warn", "unwarn"}

\* mutant of StoreOffline: the unban branch is missing
StoreOfflineKickOnly(ga, action, key, reason, moderator, t) ==
  IF action = "kick"
    THEN [k \in DOMAIN ga \cup {key} |->
            IF k = key
              THEN [type |-> "ban", reason |-> OrElse(reason, "Rule violation"),
                    moderator |-> OrElse(moderator, "Discord"), timestamp |-> Seconds(t)]
              ELSE ga[k]]
    ELSE ga

\* mutant of StoreOffline: a plain else for the unban branch
StoreOfflineElse(ga, action, key, reason, moderator, t) ==
  [k \in DOMAIN ga \cup {key} |->
     IF k = key
       THEN IF action = "kick"
              THEN [type |-> "ban", reason |-> OrElse(reason, "Rule violation"),
                    moderator |-> OrElse(moderator, "Discord"), timestamp |-> Seconds(t)]
              ELSE [type |-> "unban", reason |-> OrElse(reason, "Unbanned"),
                    moderator |-> OrElse(moderator, "Discord"), timestamp |-> Seconds(t)]
       ELSE ga[k]]

\* mutant of StoreOffline: an action already stored for the user is kept
StoreOfflineIfAbsent(ga, action, key, reason, moderator, t) ==
  IF key \in DOMAIN ga THEN ga ELSE StoreOfflineElse(ga, action, key, reason, moderator, t)

\* the globalActions.set of /command: the map after it
StoreOffline(ga, action, key, reason, moderator, t) ==
  LET put(rec) == [k \in DOMAIN ga \cup {key} |-> IF k = key THEN rec ELSE ga[k]]
  IN IF action = "kick"
       THEN put([type |-> "ban", reason |-> OrElse(reason, "Rule violation"),
                 moderator |-> OrElse(moderator, "Discord"), timestamp |-> Seconds(t)])
     ELSE IF action = "unban"
       THEN put([type |-> "unban", reason |-> OrElse(reason, "Unbanned"),
                 moderator |-> OrElse(moderator, "Discord"), timestamp |-> Seconds(t)])
     ELSE ga

\* interval in hundredths: Number(interval || 0.35)
DefaultInterval == 35

\* mutant of MakeCmd: the warn fields are attached whatever the action
MakeCmdWarnFields(id, action, userId, reason, moderator, imageA, imageB, interval, entry, t) ==
  [id |-> id, action |-> action, userId |-> userId, reason |-> reason,
   moderator |-> OrElse(moderator, "Discord"), issuedAt |-> Seconds(t),
   serverId |-> entry.serverId,
   imageA |-> OrElse(imageA, "WARNING_A"),
   imageB |-> OrElse(imageB, "WARNING_B"),
   interval |-> IF interval = 0 THEN DefaultInterval ELSE interval]

\* the cmd object of /command
MakeCmd(id, action, userId, reason, moderator, imageA, imageB, interval, entry, t) ==
  LET base == [id |-> id, action |-> action, userId |-> userId, reason |-> reason,
               moderator |-> OrElse(moderator, "Discord"), issuedAt |-> Seconds(t),
               serverId |-> entry.serverId]
  IN IF action = "warn"
       THEN [id |-> id, action |-> action, userId |-> userId, reason |-> reason,
             moderator |-> OrElse(moderator, "Discord"), issuedAt |-> Seconds(t),
             serverId |-> entry.serverId,
             imageA |-> OrElse(imageA, "WARNING_A"),
             imageB |-> OrElse(imageB, "WARNING_B"),
             interval |-> IF interval = 0 THEN DefaultInterval ELSE interval]
       ELSE base

\* mutant of Enqueue: the queue of serverId is replaced by a new one holding cmd
EnqueueReplace(queues, serverId, cmd) ==
  [getQueue(queues, serverId) EXCEPT ![serverId] = <<cmd>>]

\* mutant of Enqueue: the command goes to a queue other than that of the entry read
EnqueueElsewhere(queues, serverId, cmd) ==
  LET other == IF serverId = "s1" THEN "s2" ELSE "s1"
  IN [getQueue(queues, other) EXCEPT ![other] = Append(@, cmd)]

\* mutant of Enqueue: one queue, that of the first server, takes every command
EnqueueShared(queues, serverId, cmd) ==
  [getQueue(queues, "s1") EXCEPT !["s1"] = Append(@, cmd)]

\* q.set(cmd.id, cmd) on the queue of serverId
Enqueue(queues, serverId, cmd) ==
  [getQueue(queues, serverId) EXCEPT ![serverId] = Append(@, cmd)]

(* ------------------------------- Init ---------------------------------- *)
\* the process after start, with env the value of NETWORK_ID_DEFAULT
Boot(env) ==
  /\ userToServer = <<>>
  /\ serverQueues = <<>>
  /\ globalActions = <<>>
  /\ now = 0
  /\ nextId = 1
  /\ last = [op |-> "none", status |-> 0]
  /\ calls = 0
  /\ NETWORK_ID_DEFAULT = env
  /\ bans = {}
  /\ joinAttempts = <<>>
  /\ moderationActions = <<>>
  /\ polled = <<>>
  /\ seenNonces = <<>>
  /\ gate = [verdict |-> "none"]
  /\ awaiting = <<>>
  /\ replied = [op |-> "none", status |-> 0]
  /\ sinkOutcome = "idle"

Init == Boot("")

(* ------------------------------ handlers ------------------------------- *)
\* GET /whois/:userId
Whois(userId) ==
  LET key == Str(userId)
  IN /\ last' = IF key \notin DOMAIN userToServer
                  THEN [op |-> "whois", userId |-> userId, status |-> 404]
                  ELSE [op |-> "whois", userId |-> userId, status |-> 200,
                        serverId |-> userToServer[key].serverId,
                        lastSeenMs |-> userToServer[key].lastSeenMs]
     /\ UNCHANGED <<userToServer, serverQueues, globalActions, now, nextId>>

\* POST /roblox/register-server; players: the userId of each player (0: none)
RegisterServer(serverId, isArray, players) ==
  IF serverId = "" \/ ~isArray
    THEN /\ last' = [op |-> "register", serverId |-> serverId, isArray |-> isArray,
                     status |-> 400]
         /\ UNCHANGED <<userToServer, serverQueues, globalActions, now, nextId>>
    ELSE LET listed == {Str(p) : p \in {x \in players : x # 0}}
         IN /\ userToServer' = SetPresence(userToServer, listed, serverId, now)
            /\ last' = [op |-> "register", serverId |-> serverId, isArray |-> isArray,
                        players |-> players, status |-> 200]
            /\ UNCHANGED <<serverQueues, globalActions, now, nextId>>

\* POST /roblox/poll-commands
PollCommands(serverId) ==
  IF serverId = ""
    THEN /\ last' = [op |-> "poll", serverId |-> serverId, status |-> 400]
         /\ UNCHANGED <<userToServer, serverQueues, globalActions, now, nextId>>
    ELSE LET queues == getQueue(serverQueues, serverId)
         IN /\ serverQueues' = queues
            /\ last' = [op |-> "poll", serverId |-> serverId, status |-> 200,
                        commands |-> Page(queues[serverId])]
            /\ UNCHANGED <<userToServer, globalActions, now, nextId>>

\* POST /roblox/ack
Ack(serverId, isArray, ackIds) ==
  IF serverId = "" \/ ~isArray
    THEN /\ last' = [op |-> "ack", serverId |-> serverId, isArray |-> isArray,
                     status |-> 400]
         /\ UNCHANGED <<userToServer, serverQueues, globalActions, now, nextId>>
    ELSE LET queues == getQueue(serverQueues, serverId)
             q == AckRemove(queues[serverId], ackIds)
         IN /\ serverQueues' = [queues EXCEPT ![serverId] = q]
            /\ last' = [op |-> "ack", serverId |-> serverId, isArray |-> isArray,
                        ackIds |-> ackIds, status |-> 200, remaining |-> Len(q)]
            /\ UNCHANGED <<userToServer, globalActions, now, nextId>>

\* POST /roblox/global-action; action: <<>> for null, <<a>> for the action a
GlobalAction(userId) ==
  LET key == IF userId = 0 THEN "" ELSE Str(userId)
  IN IF key = ""
       THEN /\ last' = [op |-> "globalAction", userId |-> userId, status |-> 400]
            /\ UNCHANGED <<userToServer, serverQueues, globalActions, now, nextId>>
     ELSE IF key \notin DOMAIN globalActions
       THEN /\ last' = [op |-> "globalAction", userId |-> userId, status |-> 200,
                        action |-> <<>>]
            /\ UNCHANGED <<userToServer, serverQueues, globalActions, now, nextId>>
     ELSE /\ globalActions' = TakeOnce(globalActions, key)
          /\ last' = [op |-> "globalAction", userId |-> userId, status |-> 200,
                      action |-> <<globalActions[key]>>]
          /\ UNCHANGED <<userToServer, serverQueues, now, nextId>>

\* POST /command
Command(action, userId, reason, moderator, imageA, imageB, interval) ==
  LET req == [op |-> "command", action |-> action, userId |-> userId,
              imageA |-> imageA, imageB |-> imageB, interval |-> interval]
      key == Str(userId)
  IN IF action = "" \/ userId = 0
       THEN /\ last' = req @@ [status |-> 400]
            /\ UNCHANGED <<userToServer, serverQueues, globalActions, now, nextId>>
     ELSE
       /\ globalActions' = StoreOffline(globalActions, action, key, reason, moderator, now)
       /\ IF key \notin DOMAIN userToServer
            THEN IF NeedsLive(action)
                   THEN /\ last' = req @@ [status |-> 404,
                                           error |-> "User not found in any active server"]
                        /\ UNCHANGED <<userToServer, serverQueues, now, nextId>>
                   ELSE /\ last' = req @@ [status |-> 200, offline |-> TRUE,
                                           routedServerId |-> ""]
                        /\ UNCHANGED <<userToServer, serverQueues, now, nextId>>
          ELSE IF IsStale(userToServer[key], now) /\ NeedsLive(action)
            THEN /\ last' = req @@ [status |-> 404,
                                    error |-> "User mapping stale; user may have left"]
                 /\ UNCHANGED <<userToServer, serverQueues, now, nextId>>
          ELSE LET entry == userToServer[key]
                   cmd == MakeCmd(nextId, action, userId, reason, moderator,
                                  imageA, imageB, interval, entry, now)
               IN /\ serverQueues' = Enqueue(serverQueues, entry.serverId, cmd)
                  /\ nextId' = nextId + 1
                  /\ last' = req @@ [status |-> 200, offline |-> FALSE,
                                     routedServerId |-> cmd.serverId,
                                     commandId |-> cmd.id]
                  /\ UNCHANGED <<userToServer, now>>

\* the clock: Date.now() moves on between requests
Tick(t) ==
  /\ t > now
  /\ now' = t
  /\ UNCHANGED <<userToServer, serverQueues, globalActions, nextId, last, calls>>
  /\ UNCHANGED <<ledger, boundary>>

(* ------------------------------ ban ledger ----------------------------- *)
\* Number(x) of a value that is no number
NaN == -1

\* Number(body.userId), Number(ts)
Number(raw) == CASE raw = "1" -> 1 [] raw = "2" -> 2
                 [] raw = "0" -> 0 [] raw = "120" -> 120 [] OTHER -> NaN

\* Number.isFinite(n)
IsFinite(n) == n # NaN

\* select ... from bans where network_id=$1 and user_id=$2
SelectBan(rows, networkId, userId) ==
  {r \in rows : r.network_id = networkId /\ r.user_id = userId}

BanRow(networkId, userId, reason, moderator, t) ==
  [network_id |-> networkId, user_id |-> userId, reason |-> reason,
   moderator |-> moderator, banned_at |-> t]

\* mutant of Upsert: a plain insert into a table without the unique key
UpsertAppend(rows, networkId, userId, reason, moderator, t) ==
  rows \cup {BanRow(networkId, userId, reason, moderator, t)}

\* insert ... on conflict (network_id,user_id) do update set reason=excluded.reason,
\* moderator=excluded.moderator, banned_at=now()
Upsert(rows, networkId, userId, reason, moderator, t) ==
  (rows \ SelectBan(rows, networkId, userId))
    \cup {BanRow(networkId, userId, reason, moderator, t)}

\* insert ... on conflict (network_id,user_id) do update set reason=$3, banned_at=now()
UpsertReason(rows, networkId, userId, reason, moderator, t) ==
  LET found == SelectBan(rows, networkId, userId)
  IN IF found = {}
       THEN rows \cup {BanRow(networkId, userId, reason, moderator, t)}
       ELSE (rows \ found)
              \cup {[r EXCEPT !.reason = reason, !.banned_at = t] : r \in found}

\* insert ... on conflict do nothing
InsertOrNothing(rows, networkId, userId, reason, moderator, t) ==
  IF SelectBan(rows, networkId, userId) = {}
    THEN rows \cup {BanRow(networkId, userId, reason, moderator, t)}
    ELSE rows

\* delete from bans where network_id=$1 and user_id=$2
DeleteBan(rows, networkId, userId) == rows \ SelectBan(rows, networkId, userId)

\* mutant of Rejected: a catch around the statement answers not banned
RejectedOpen(req) == req @@ [status |-> 200, banned |-> FALSE]

\* the answer of a handler whose awaited statement failed: the handler's promise
\* rejects, no res.json of the handler runs
Rejected(req) == req @@ [status |-> 500, error |-> "rejected"]

\* String(b.networkId || NETWORK_ID_DEFAULT || "")
ResolveNetwork(raw) == OrElse(OrElse(raw, NETWORK_ID_DEFAULT), "")

\* res.json({ banned: true, reason: row.reason }) / res.json({ banned: false })
BanAnswer(found) ==
  IF found # {}
    THEN [banned |-> TRUE, reason |-> (CHOOSE r \in found : TRUE).reason]
    ELSE [banned |-> FALSE]

\* POST /ban/check; db: which of the two statements fails, if any
CheckBan(networkIdRaw, userIdRaw, db) ==
  LET networkId == ResolveNetwork(networkIdRaw)
      userId == Number(userIdRaw)
      req == [op |-> "banCheck", networkId |-> networkId, userId |-> userId]
  IN IF networkId = "" \/ ~IsFinite(userId)
       THEN /\ last' = req @@ [status |-> 400]
            /\ UNCHANGED <<bans, joinAttempts>>
     ELSE IF db = "read_failed"
       THEN /\ last' = Rejected(req @@ [db |-> db])
            /\ UNCHANGED <<bans, joinAttempts>>
     ELSE IF db = "write_failed"
       THEN /\ last' = Rejected(req @@ [db |-> db])
            /\ UNCHANGED <<bans, joinAttempts>>
     ELSE /\ joinAttempts' =
               Append(joinAttempts, [network_id |-> networkId, user_id |-> userId])
          /\ last' = req @@ [db |-> db, status |-> 200]
                         @@ BanAnswer(SelectBan(bans, networkId, userId))
          /\ UNCHANGED bans

\* a write to bans by handler op; prior: the rows the statement found for the key
\* (the handlers do not read it)
BanWrite(op, networkId, userId, reason, moderator, dbOk, rows) ==
  LET req == [op |-> op, networkId |-> networkId, userId |-> userId,
              reason |-> reason, moderator |-> moderator,
              prior |-> SelectBan(bans, networkId, userId)]
  IN /\ IF dbOk
          THEN bans' = rows /\ last' = req @@ [status |-> 200]
          ELSE bans' = bans /\ last' = Rejected(req)
     /\ UNCHANGED joinAttempts

\* POST /ban/add
BanAdd(networkIdRaw, userIdRaw, reasonRaw, moderatorRaw, dbOk) ==
  LET networkId == ResolveNetwork(networkIdRaw)
      userId == Number(userIdRaw)
      reason == OrElse(reasonRaw, "Rule violation")
      moderator == OrElse(moderatorRaw, "Discord")
  IN IF networkId = "" \/ ~IsFinite(userId)
       THEN /\ last' = [op |-> "banAdd", networkId |-> networkId, userId |-> userId,
                        status |-> 400]
            /\ UNCHANGED <<bans, joinAttempts>>
       ELSE BanWrite("banAdd", networkId, userId, reason, moderator, dbOk,
                     Upsert(bans, networkId, userId, reason, moderator, now))

\* POST /ban/remove
BanRemove(networkIdRaw, userIdRaw, dbOk) ==
  LET networkId == ResolveNetwork(networkIdRaw)
      userId == Number(userIdRaw)
  IN IF networkId = "" \/ ~IsFinite(userId)
       THEN /\ last' = [op |-> "banRemove", networkId |-> networkId, userId |-> userId,
                        status |-> 400]
            /\ UNCHANGED <<bans, joinAttempts>>
       ELSE BanWrite("banRemove", networkId, userId, "", "", dbOk,
                     DeleteBan(bans, networkId, userId))

\* the bot, interactionCreate with commandName === "ban"
SlashBan(userId, reasonOpt, tag, dbOk) ==
  LET networkId == OrElse(NETWORK_ID_DEFAULT, "global")
      reason == OrElse(reasonOpt, "Rule violation")
  IN BanWrite("slashBan", networkId, userId, reason, tag, dbOk,
              UpsertReason(bans, networkId, userId, reason, tag, now))

\* the bot, messageCreate with "!ban <userId> [reason]"
PrefixBan(userId, rest, tag, dbOk) ==
  LET networkId == OrElse(NETWORK_ID_DEFAULT, "main")
      reason == OrElse(rest, "Rule violation")
  IN BanWrite("prefixBan", networkId, userId, reason, tag, dbOk,
              InsertOrNothing(bans, networkId, userId, reason, tag, now))

(* ----------------------------- verify ---------------------------------- *)
\* process.env.WEBAPP_SHARED_SECRET (the process exits without one)
WEBAPP_SHARED_SECRET == "S"

Abs(n) == IF n < 0 THEN -n ELSE n

\* mutant of Seen: a nonce past its expiry counts as unseen
SeenUnexpired(seen, nonce, t) == nonce \in DOMAIN seen /\ seen[nonce] > t

\* seenNonces.has(nonce)
Seen(seen, nonce, t) == nonce \in DOMAIN seen

\* what verify does with the headers: "next" when it calls next()
Verdict(auth, nonce, ts, seen, t) ==
  IF auth # WEBAPP_SHARED_SECRET THEN "unauthorized"
  ELSE IF nonce # "" /\ ts # ""
    THEN IF ~IsFinite(Number(ts)) THEN "bad_ts"
         ELSE IF Abs(Seconds(t) - Number(ts)) > TsWindowSec THEN "stale"
         ELSE IF Seen(seen, nonce, t) THEN "replay"
         ELSE "next"
  ELSE "next"

\* the response verify sends when it does not call next()
VerifyResponse(verdict) ==
  CASE verdict = "unauthorized" -> [op |-> "verify", status |-> 401, error |-> ""]
    [] verdict = "bad_ts" -> [op |-> "verify", status |-> 400, error |-> "Bad x-ts"]
    [] verdict = "stale" -> [op |-> "verify", status |-> 401, error |-> "Stale timestamp"]
    [] OTHER -> [op |-> "verify", status |-> 401, error |-> "Replay detected"]

\* verify(req, res, next) up to the call of next() or the rejection
verify(auth, nonce, ts) ==
  LET verdict == Verdict(auth, nonce, ts, seenNonces, now)
  IN /\ gate' = [auth |-> auth, nonce |-> nonce, ts |-> ts, verdict |-> verdict]
     /\ seenNonces' =
          IF verdict = "next" /\ nonce # "" /\ ts # ""
            THEN [k \in DOMAIN seenNonces \cup {nonce} |->
                    IF k = nonce THEN now + NonceTtlMs ELSE seenNonces[k]]
            ELSE seenNonces

\* the setInterval callback: the expired nonces are deleted
NonceGC ==
  /\ seenNonces' = [k \in {n \in DOMAIN seenNonces : seenNonces[n] > now} |-> seenNonces[k]]
  /\ seenNonces' # seenNonces
  /\ UNCHANGED <<relay, now, last, calls, ledger, gate, awaiting, replied, sinkOutcome, polled>>

(* --------------------------- notifications ----------------------------- *)
\* the handler goes on to await a notification before it sends the response l
Notifies(l) ==
  /\ l.status = 200
  /\ \/ l.op \in {"register", "command"}
     \/ l.op = "banCheck" /\ l.banned

\* the handler up to its await: the response is ready, the notification starts;
\* a handler with nothing to await sends the response at once
Await ==
  IF Notifies(last')
    THEN awaiting' = Append(awaiting, last') /\ UNCHANGED <<replied, sinkOutcome>>
    ELSE replied' = last' /\ UNCHANGED <<awaiting, sinkOutcome>>

\* mutant of SinkReply: no try / catch, a failed notification fails the request
SinkReplyThrows(l, ok) == IF ok THEN l ELSE [op |-> l.op, status |-> 500]

\* discordSendMessage / botLog return, whether the fetch worked or threw, and the
\* handler sends the response it had prepared
SinkReply(l, ok) == l

\* the awaited notification of the i-th waiting handler ends, ok or not
SinkDone(i, ok) ==
  /\ i \in 1..Len(awaiting)
  /\ replied' = SinkReply(awaiting[i], ok)
  /\ awaiting' = [j \in 1..(Len(awaiting) - 1) |->
                    IF j < i THEN awaiting[j] ELSE awaiting[j + 1]]
  /\ sinkOutcome' = IF ok THEN "sent" ELSE "failed"
  /\ UNCHANGED <<relay, now, last, calls, ledger, seenNonces, gate, polled>>

(* --------------------------- main specification ------------------------ *)
\* one more request is accepted by the server
Served(max) == calls < max /\ calls' = calls + 1

\* request payloads: a payload that is no array lists nothing
PlayerLists == {<<TRUE, ps>> : ps \in SUBSET UserIdInputs} \cup {<<FALSE, {}>>}
AckLists ==
  {<<TRUE, ids>> : ids \in {x \in SUBSET IdPool : Cardinality(x) <= 2}} \cup {<<FALSE, {}>>}

DoWhois ==
  /\ Served(MaxCalls)
  /\ \E u \in Users : Whois(u)
  /\ UNCHANGED <<ledger, boundary>>

DoRegister ==
  /\ Served(MaxCalls)
  /\ \E s \in ServerIdInputs, pl \in PlayerLists : RegisterServer(s, pl[1], pl[2])
  /\ UNCHANGED <<ledger, boundary>>

DoPoll ==
  /\ Served(MaxCalls)
  /\ \E s \in ServerIdInputs : PollCommands(s)
  /\ UNCHANGED <<ledger, boundary>>

DoAck ==
  /\ Served(MaxCalls)
  /\ \E s \in ServerIdInputs, al \in AckLists : Ack(s, al[1], al[2])
  /\ UNCHANGED <<ledger, boundary>>

DoGlobalAction ==
  /\ Served(MaxCalls)
  /\ \E u \in UserIdInputs : GlobalAction(u)
  /\ UNCHANGED <<ledger, boundary>>

DoCommand ==
  /\ Served(MaxCalls)
  /\ \E a \in ActionInputs, u \in UserIdInputs, r \in ReasonInputs, m \in ModeratorInputs,
        ia \in ImageInputs, ib \in ImageInputs, iv \in IntervalInputs :
       /\ Command(a, u, r, m, ia, ib, iv)
       /\ nextId' <= MaxCmds + 1
  /\ UNCHANGED <<ledger, boundary>>

DoTick == \E t \in ClockTimes : Tick(t)

Next ==
  \/ DoWhois
  \/ DoRegister
  \/ DoPoll
  \/ DoAck
  \/ DoGlobalAction
  \/ DoCommand
  \/ DoTick

Spec == Init /\ [][Next]_vars

(* ------------------------- staleness specification --------------------- *)
(* Presence reports and /command requests only, with the clock read on     *)
(* both sides of the edge of the freshness window.                         *)
EdgeTick == \E t \in EdgeTimes : Tick(t)

NextEdge == DoRegister \/ DoCommand \/ EdgeTick

SpecEdge == Init /\ [][NextEdge]_vars

(* -------------------------- ledger specification ---------------------- *)
(* The ban endpoints of the webapp and the two ban commands of the bot on  *)
(* one database, each statement succeeding or failing.                     *)
InitBan == \E env \in EnvInputs : Boot(env)

DoBanCheck ==
  /\ Served(MaxBanCalls)
  /\ \E n \in NetworkIdInputs, u \in RawUserIds, db \in DbOutcomes : CheckBan(n, u, db)
  /\ UNCHANGED <<relay, now, NETWORK_ID_DEFAULT, moderationActions, boundary>>

DoBanAdd ==
  /\ Served(MaxBanCalls)
  /\ \E n \in NetworkIdInputs, u \in RawUserIds, r \in BanReasonInputs,
        m \in BanModeratorInputs, dbOk \in BOOLEAN : BanAdd(n, u, r, m, dbOk)
  /\ UNCHANGED <<relay, now, NETWORK_ID_DEFAULT, moderationActions, boundary>>

DoBanRemove ==
  /\ Served(MaxBanCalls)
  /\ \E n \in NetworkIdInputs, u \in RawUserIds, dbOk \in BOOLEAN : BanRemove(n, u, dbOk)
  /\ UNCHANGED <<relay, now, NETWORK_ID_DEFAULT, moderationActions, boundary>>

DoSlashBan ==
  /\ Served(MaxBanCalls)
  /\ \E u \in Users, r \in BanReasonInputs, tag \in ModTags, dbOk \in BOOLEAN :
       SlashBan(u, r, tag, dbOk)
  /\ UNCHANGED <<relay, now, NETWORK_ID_DEFAULT, moderationActions, boundary>>

DoPrefixBan ==
  /\ Served(MaxBanCalls)
  /\ \E u \in Users, r \in BanReasonInputs, tag \in ModTags, dbOk \in BOOLEAN :
       PrefixBan(u, r, tag, dbOk)
  /\ UNCHANGED <<relay, now, NETWORK_ID_DEFAULT, moderationActions, boundary>>

NextBan ==
  \/ DoBanCheck
  \/ DoBanAdd
  \/ DoBanRemove
  \/ DoSlashBan
  \/ DoPrefixBan
  \/ DoTick

SpecBan == InitBan /\ [][NextBan]_vars

(* -------------------------- replay specification ----------------------- *)
(* Presence reports behind verify, with the headers a caller may send, the *)
(* clock around the timestamp window and the nonce expiry, and the         *)
(* periodic collection of expired nonces.                                  *)
GateRequest ==
  /\ Served(MaxGateCalls)
  /\ \E auth \in AuthInputs, nonce \in NonceInputs, ts \in TsInputs, s \in Servers :
       /\ verify(auth, nonce, ts)
       /\ IF gate'.verdict = "next"
            THEN RegisterServer(s, TRUE, {1})
            ELSE /\ last' = VerifyResponse(gate'.verdict)
                 /\ UNCHANGED <<relay, now>>
  /\ UNCHANGED <<ledger, awaiting, replied, sinkOutcome, polled>>

GateTick == \E t \in GateTimes : Tick(t)

NextGate == GateRequest \/ NonceGC \/ GateTick

SpecGate == Init /\ [][NextGate]_vars

(* ----------------------- notification specification -------------------- *)
(* The handlers that notify, split at their await: the synchronous part    *)
(* first, then, interleaved with other requests, the end of the            *)
(* notification and the response.                                          *)
SinkRegister ==
  /\ Served(MaxSinkCalls)
  /\ \E s \in Servers, ps \in {{1}, {1, 2}} : RegisterServer(s, TRUE, ps)
  /\ Await
  /\ UNCHANGED <<ledger, seenNonces, gate, polled>>

SinkCommand ==
  /\ Served(MaxSinkCalls)
  /\ \E a \in {"kick", "warn"}, u \in Users : Command(a, u, "", "", "", "", 0)
  /\ nextId' <= MaxCmds + 1
  /\ Await
  /\ UNCHANGED <<ledger, seenNonces, gate, polled>>

SinkBanAdd ==
  /\ Served(MaxSinkCalls)
  /\ BanAdd("main", "1", "", "", TRUE)
  /\ Await
  /\ UNCHANGED <<relay, now, NETWORK_ID_DEFAULT, moderationActions, seenNonces, gate, polled>>

SinkBanCheck ==
  /\ Served(MaxSinkCalls)
  /\ \E u \in {"1", "2"} : CheckBan("main", u, "ok")
  /\ Await
  /\ UNCHANGED <<relay, now, NETWORK_ID_DEFAULT, moderationActions, seenNonces, gate, polled>>

SinkEnd == \E i \in 1..Len(awaiting), ok \in BOOLEAN : SinkDone(i, ok)

NextSink == SinkRegister \/ SinkCommand \/ SinkBanAdd \/ SinkBanCheck \/ SinkEnd

SpecSink == Init /\ [][NextSink]_vars

(* ------------------------- delivery specification --------------------- *)
(* One destination that keeps polling and acknowledges what each poll      *)
(* returned, while commands for its player keep coming in.                 *)
notLive == <<calls, ledger, seenNonces, gate, awaiting, replied, sinkOutcome>>

LiveRegister == RegisterServer("s1", TRUE, {1}) /\ UNCHANGED <<notLive, polled>>

LiveCommand ==
  /\ Command("warn", 1, "", "", "", "", 0)
  /\ nextId' <= MaxLiveCmds + 1
  /\ UNCHANGED <<notLive, polled>>

\* the destination polls once it has acknowledged its last page
LivePoll ==
  /\ polled = <<>>
  /\ PollCommands("s1")
  /\ polled' = last'.commands
  /\ UNCHANGED notLive

\* the destination acknowledges every command of the page it got
LiveAck ==
  /\ polled # <<>>
  /\ Ack("s1", TRUE, QueueIds(polled))
  /\ polled' = <<>>
  /\ UNCHANGED notLive

NextLive == LiveRegister \/ LiveCommand \/ LivePoll \/ LiveAck

\* the destination keeps polling and keeps acknowledging
SpecLive == Init /\ [][NextLive]_vars /\ WF_vars(LivePoll) /\ WF_vars(LiveAck)

(* --------------------- the service of src/index.js --------------------- *)
\* the cmd object of /command in src/index.js
MakeAuditedCmd(id, action, userId, reason, moderator, t) ==
  [id |-> id, action |-> action, userId |-> userId, reason |-> reason,
   moderator |-> moderator, issuedAt |-> t]

\* the row of: insert into moderation_actions(network_id,action,user_id,reason,moderator)
AuditRow(action, userId, reason, moderator) ==
  [network_id |-> NETWORK_ID_DEFAULT, action |-> action, user_id |-> userId,
   reason |-> reason, moderator |-> moderator]

\* no res.json of the handler ran and the process ended
Exited(req) == req @@ [status |-> 0, error |-> "exit"]

\* POST /roblox/register-server of src/index.js: players.forEach, sendStatus(200)
RegisterMerged(serverId, players) ==
  /\ userToServer' = SetPresence(userToServer, {Str(p) : p \in players}, serverId, now)
  /\ last' = [op |-> "register", serverId |-> serverId, players |-> players,
              status |-> 200]
  /\ UNCHANGED <<serverQueues, globalActions, now, nextId, moderationActions>>

\* POST /roblox/poll-commands of src/index.js: [...q.values()]
PollAll(serverId) ==
  LET queues == getQueue(serverQueues, serverId)
  IN /\ serverQueues' = queues
     /\ last' = [op |-> "poll", serverId |-> serverId, status |-> 200,
                 commands |-> queues[serverId]]
     /\ UNCHANGED <<userToServer, globalActions, now, nextId, moderationActions>>

\* POST /command of src/index.js: the command is queued, then the insert into
\* moderation_actions is awaited, then the answer is sent.  A process that
\* ended starts again with its maps empty.
CommandAudited(action, userId, reason, moderator, db) ==
  LET req == [op |-> "command", action |-> action, userId |-> userId]
      key == Str(userId)
  IN /\ IF key \notin DOMAIN userToServer
          THEN /\ last' = req @@ [status |-> 200, offline |-> TRUE]
               /\ UNCHANGED <<userToServer, serverQueues, nextId, moderationActions>>
          ELSE LET entry == userToServer[key]
                   cmd == MakeAuditedCmd(nextId, action, userId, reason, moderator, now)
                   queued == Enqueue(serverQueues, entry.serverId, cmd)
               IN /\ nextId' = nextId + 1
                  /\ CASE db = "ok" ->
                            /\ serverQueues' = queued
                            /\ moderationActions' =
                                 Append(moderationActions,
                                        AuditRow(action, userId, reason, moderator))
                            /\ last' = req @@ [status |-> 200, offline |-> FALSE,
                                               routedServerId |-> entry.serverId]
                            /\ UNCHANGED userToServer
                       [] db = "rejected" ->
                            /\ serverQueues' = queued
                            /\ last' = Rejected(req)
                            /\ UNCHANGED <<userToServer, moderationActions>>
                       [] OTHER ->
                            /\ serverQueues' = <<>>
                            /\ userToServer' = <<>>
                            /\ last' = Exited(req)
                            /\ UNCHANGED moderationActions
     /\ UNCHANGED <<globalActions, now>>

(* --------------------------- audit specification ----------------------- *)
(* The service of src/index.js with the database failing or not when the   *)
(* audit row of a command is written.                                      *)
AuditRegister ==
  /\ Served(MaxAuditCalls)
  /\ \E s \in Servers, ps \in SUBSET Users : RegisterMerged(s, ps)
  /\ UNCHANGED <<NETWORK_ID_DEFAULT, bans, joinAttempts, boundary>>

AuditCommand ==
  /\ Served(MaxAuditCalls)
  /\ \E a \in AuditActions, u \in Users, db \in AuditOutcomes :
       CommandAudited(a, u, "", "", db)
  /\ UNCHANGED <<NETWORK_ID_DEFAULT, bans, joinAttempts, boundary>>

AuditPoll ==
  /\ Served(MaxAuditCalls)
  /\ \E s \in Servers : PollAll(s)
  /\ UNCHANGED <<NETWORK_ID_DEFAULT, bans, joinAttempts, boundary>>

NextAudit == AuditRegister \/ AuditCommand \/ AuditPoll

\* NETWORK_ID_DEFAULT = "main" is the default of src/index.js
SpecAudit == Boot("main") /\ [][NextAudit]_vars

(* ------------------------ warn fields specification -------------------- *)
(* Commands for one player, with and without the warn fields in the body.  *)
FieldRegister == RegisterServer("s1", TRUE, {1}) /\ UNCHANGED <<notLive, polled>>

FieldCommand ==
  /\ \E a \in {"warn", "unwarn", "kick"}, ia \in FieldImages, ib \in FieldImages,
        iv \in FieldIntervals : Command(a, 1, "", "", ia, ib, iv)
  /\ nextId' <= MaxFieldCmds + 1
  /\ UNCHANGED <<notLive, polled>>

FieldPoll == PollCommands("s1") /\ UNCHANGED <<notLive, polled>>

NextField == FieldRegister \/ FieldCommand \/ FieldPoll

SpecField == Init /\ [][NextField]_vars

(* -------------------------- paging specification ----------------------- *)
(* One destination with one reporting player, and more commands than one   *)
(* page holds.  The destination acknowledges one of the two oldest pending *)
(* commands, or an id that was never issued.                               *)
PageRegister == RegisterServer("s1", TRUE, {1}) /\ UNCHANGED <<calls, ledger, boundary>>

PageCommand ==
  /\ Command("warn", 1, "", "", "", "", 0)
  /\ nextId' <= MaxPageCmds + 1
  /\ UNCHANGED <<calls, ledger, boundary>>

PagePoll == (\E s \in Servers : PollCommands(s)) /\ UNCHANGED <<calls, ledger, boundary>>

PageAck ==
  /\ "s1" \in DOMAIN serverQueues
  /\ \E id \in {serverQueues["s1"][i].id : i \in {1, 2} \cap DOMAIN serverQueues["s1"]}
                \cup {nextId} :
       Ack("s1", TRUE, {id})
  /\ UNCHANGED <<calls, ledger, boundary>>

NextPage == PageRegister \/ PageCommand \/ PagePoll \/ PageAck

SpecPage == Init /\ [][NextPage]_vars

(* ------------------------------- claims -------------------------------- *)
\* the queue of a destination, empty when it was never created
QueueOf(queues, s) == IF s \in DOMAIN queues THEN queues[s] ELSE <<>>

SeqRange(q) == {q[i] : i \in 1..Len(q)}

AllQueuedIds(queues) == UNION {QueueIds(queues[s]) : s \in DOMAIN queues}

(* C1 as stated: every poll of D returns every command pending on D,       *)
(* however many are pending.                                               *)
C1_PollReturnsEveryPending ==
  (last.op = "poll" /\ last.status = 200) =>
    SeqRange(QueueOf(serverQueues, last.serverId)) \subseteq SeqRange(last.commands)

\* a poll answers with exactly the first PageSize pending commands, in queue order
C1_PollPage ==
  (last.op = "poll" /\ last.status = 200) =>
    LET q == QueueOf(serverQueues, last.serverId)
    IN /\ Len(last.commands) = Min(Len(q), PageSize)
       /\ \A i \in 1..Len(last.commands) : last.commands[i] = q[i]

\* after an acknowledge the named ids are in the destination's queue no more
C1_AckedGone ==
  (last.op = "ack" /\ last.status = 200) =>
    last.ackIds \cap QueueIds(QueueOf(serverQueues, last.serverId)) = {}

\* only a fresh id ever enters a queue, so an acknowledged command never returns
C1_OnlyFreshEnters ==
  /\ nextId' >= nextId
  /\ \A s \in DOMAIN serverQueues' :
       \A id \in QueueIds(serverQueues'[s]) \ QueueIds(QueueOf(serverQueues, s)) :
         id = nextId /\ nextId' = nextId + 1

(* C1 (amended): a poll of D includes every command pending on D that has  *)
(* fewer than 25 older commands pending before it (the poll returns the    *)
(* first 25 in enqueue order) and nothing that is not pending; after an    *)
(* acknowledge naming its id no later poll of D includes the command.      *)
C1_AtLeastOnceWithinPage ==
  /\ [](C1_PollPage /\ C1_AckedGone)
  /\ [][C1_OnlyFreshEnters]_vars

\* a poll answered a full page while an older command had been acknowledged
C1_Witness ==
  /\ last.op = "poll" /\ last.status = 200
  /\ Len(last.commands) = PageSize
  /\ Len(QueueOf(serverQueues, last.serverId)) > PageSize
  /\ Cardinality(AllQueuedIds(serverQueues)) < nextId - 1

(* ---- steps of the main specification, read from the request counter ---- *)
\* this step handled a request of kind op
Step(op) == calls' = calls + 1 /\ last'.op = op

\* this step handled a /command request that passed validation
CmdStep == Step("command") /\ last'.action # "" /\ last'.userId # 0

\* the user has a presence entry of age at most / above the freshness threshold
FreshEntry(key) ==
  key \in DOMAIN userToServer /\ now - userToServer[key].lastSeenMs <= FreshMs

StaleEntry(key) ==
  key \in DOMAIN userToServer /\ now - userToServer[key].lastSeenMs > FreshMs

\* this step appended exactly one new command, made for this request, to the queue
\* of D and to no other queue, and answered with D and the command's id
EnqueuedOn(D) ==
  LET old == QueueOf(serverQueues, D)
  IN /\ D \in DOMAIN serverQueues'
     /\ Len(serverQueues'[D]) = Len(old) + 1
     /\ SubSeq(serverQueues'[D], 1, Len(old)) = old
     /\ LET c == serverQueues'[D][Len(old) + 1]
        IN /\ c.id = nextId
           /\ c.id \notin AllQueuedIds(serverQueues)
           /\ c.serverId = D
           /\ c.userId = last'.userId
           /\ c.action = last'.action
           /\ last'.status = 200
           /\ last'.routedServerId = D
           /\ last'.commandId = c.id
     /\ nextId' = nextId + 1
     /\ DOMAIN serverQueues' = DOMAIN serverQueues \cup {D}
     /\ \A s \in DOMAIN serverQueues \ {D} : serverQueues'[s] = serverQueues[s]

\* this step wrote the offline action of the request for key and touched no other entry
StoredOffline(key) ==
  /\ key \in DOMAIN globalActions'
  /\ globalActions'[key].type = (IF last'.action = "kick" THEN "ban" ELSE "unban")
  /\ globalActions'[key].timestamp = now \div 1000
  /\ DOMAIN globalActions' = DOMAIN globalActions \cup {key}
  /\ \A k \in DOMAIN globalActions \ {key} : globalActions'[k] = globalActions[k]

(* C2: a global-action poll for u returns the stored action and deletes it *)
(* in the same step, and returns null when nothing is stored; so after a   *)
(* delivery every later poll returns null until a new action is stored,    *)
(* and no two polls receive the same stored action.                        *)
C2_TakeOnce ==
  [][(Step("globalAction") /\ last'.status = 200) =>
       LET key == Str(last'.userId)
       IN /\ IF key \in DOMAIN globalActions
               THEN last'.action = <<globalActions[key]>>
               ELSE last'.action = <<>>
          /\ key \notin DOMAIN globalActions'
          /\ DOMAIN globalActions' = DOMAIN globalActions \ {key}
          /\ \A k \in DOMAIN globalActions' : globalActions'[k] = globalActions[k]]_vars

\* an offline action was just delivered, and the store holds it no more
C2_Witness ==
  /\ last.op = "globalAction" /\ last.status = 200
  /\ last.action # <<>>
  /\ Str(last.userId) \notin DOMAIN globalActions

(* C3 as stated: kick / unban for a user with a fresh presence entry       *)
(* enqueues a command on the mapped destination and leaves the offline     *)
(* store unchanged.                                                        *)
C3_FreshLeavesStoreUnchanged ==
  [][(CmdStep /\ last'.action \in {"kick", "unban"} /\ FreshEntry(Str(last'.userId))) =>
       /\ EnqueuedOn(userToServer[Str(last'.userId)].serverId)
       /\ globalActions' = globalActions]_vars

(* C3 (amended): kick / unban for a user with a fresh presence entry       *)
(* enqueues a command on the mapped destination and also overwrites the    *)
(* offline store entry of that user (type ban for kick, unban for unban);  *)
(* the entries of other users are unchanged.                               *)
C3_FreshEnqueuesAndStores ==
  [][(CmdStep /\ last'.action \in {"kick", "unban"} /\ FreshEntry(Str(last'.userId))) =>
       /\ EnqueuedOn(userToServer[Str(last'.userId)].serverId)
       /\ StoredOffline(Str(last'.userId))]_vars

\* a kick / unban was routed to the fresh destination and is in the offline store too
C3_Witness ==
  /\ last.op = "command" /\ last.status = 200
  /\ last.action \in {"kick", "unban"}
  /\ FreshEntry(Str(last.userId))
  /\ last.routedServerId = userToServer[Str(last.userId)].serverId
  /\ Str(last.userId) \in DOMAIN globalActions

(* C4 as stated: kick / unban for a user whose presence entry is stale     *)
(* stores the offline action, enqueues nothing and answers offline.        *)
C4_StaleGoesOffline ==
  [][(CmdStep /\ last'.action \in {"kick", "unban"} /\ StaleEntry(Str(last'.userId))) =>
       /\ StoredOffline(Str(last'.userId))
       /\ serverQueues' = serverQueues
       /\ last'.status = 200 /\ last'.offline /\ last'.routedServerId = ""]_vars

(* C4 (amended): kick / unban for a user whose presence entry is stale     *)
(* stores the offline action and also enqueues one command on the          *)
(* destination of the stale entry, answering with that destination and the *)
(* command id and without the offline flag.                                *)
C4_StaleStoresAndEnqueues ==
  [][(CmdStep /\ last'.action \in {"kick", "unban"} /\ StaleEntry(Str(last'.userId))) =>
       /\ StoredOffline(Str(last'.userId))
       /\ EnqueuedOn(userToServer[Str(last'.userId)].serverId)
       /\ ~last'.offline]_vars

\* a kick / unban was answered as routed to the destination of a stale entry
C4_Witness ==
  /\ last.op = "command" /\ last.status = 200
  /\ last.action \in {"kick", "unban"}
  /\ StaleEntry(Str(last.userId))
  /\ ~last.offline
  /\ last.commandId \in QueueIds(QueueOf(serverQueues, userToServer[Str(last.userId)].serverId))

(* C5: unban for a user with no presence entry succeeds with offline =     *)
(* true and the store then holds an unban action for that user; warn for a *)
(* user with no presence entry is rejected and stores nothing.             *)
C5_OfflineFallback ==
  [][(CmdStep /\ Str(last'.userId) \notin DOMAIN userToServer) =>
       /\ last'.action = "unban" =>
            /\ last'.status = 200 /\ last'.offline /\ last'.routedServerId = ""
            /\ StoredOffline(Str(last'.userId))
            /\ globalActions'[Str(last'.userId)].type = "unban"
            /\ serverQueues' = serverQueues
       /\ last'.action = "warn" =>
            /\ last'.status = 404
            /\ globalActions' = globalActions
            /\ serverQueues' = serverQueues]_vars

\* an unban was answered offline for a user without presence entry and is stored
C5_Witness ==
  /\ last.op = "command" /\ last.status = 200 /\ last.action = "unban"
  /\ last.offline
  /\ Str(last.userId) \notin DOMAIN userToServer
  /\ Str(last.userId) \in DOMAIN globalActions
  /\ globalActions[Str(last.userId)].type = "unban"

(* C6: warn / unwarn is rejected with 404 exactly when the user has no     *)
(* presence entry or the entry is older than 120000 ms; otherwise it is    *)
(* accepted and a command is enqueued on the mapped destination.           *)
C6_StalenessGate ==
  [][(CmdStep /\ last'.action \in {"warn", "unwarn"}) =>
       LET key == Str(last'.userId)
           noLive == key \notin DOMAIN userToServer
                       \/ now - userToServer[key].lastSeenMs > FreshMs
       IN /\ (last'.status = 404) <=> noLive
          /\ noLive => serverQueues' = serverQueues
          /\ ~noLive => EnqueuedOn(userToServer[key].serverId)]_vars

\* a warn was rejected although a presence entry exists: it is one ms too old,
\* while the entry of the other user, of the very age of the threshold, is fresh
C6_Witness ==
  /\ last.op = "command" /\ last.status = 404 /\ last.action = "warn"
  /\ Str(last.userId) \in DOMAIN userToServer
  /\ now - userToServer[Str(last.userId)].lastSeenMs = FreshMs + 1
  /\ \E k \in DOMAIN userToServer : now - userToServer[k].lastSeenMs = FreshMs

\* the request recorded in l fails the handler's validation
Invalid(l) ==
  CASE l.op = "poll" -> l.serverId = ""
    [] l.op = "ack" -> l.serverId = "" \/ ~l.isArray
    [] l.op = "register" -> l.serverId = "" \/ ~l.isArray
    [] l.op = "globalAction" -> l.userId = 0
    [] l.op = "command" -> l.action = "" \/ l.userId = 0
    [] OTHER -> FALSE

(* C7: a request that fails validation is answered 400, a warn / unwarn    *)
(* without live fresh mapping 404 (so the two kinds differ), and every     *)
(* such rejected request leaves the presence map, every queue and the      *)
(* offline store unchanged.                                                *)
C7_RejectedChangesNothing ==
  [][(calls' = calls + 1) =>
       /\ Invalid(last') <=> last'.status = 400
       /\ (last'.op = "command" /\ ~Invalid(last')) =>
            ((last'.status = 404) <=>
               /\ last'.action \in {"warn", "unwarn"}
               /\ ~FreshEntry(Str(last'.userId)))
       /\ last'.status \in {400, 404} =>
            /\ userToServer' = userToServer
            /\ serverQueues' = serverQueues
            /\ globalActions' = globalActions]_vars

\* a warn was rejected as not found while all three maps hold something
C7_Witness ==
  /\ last.op = "command" /\ last.status = 404
  /\ userToServer # <<>>
  /\ globalActions # <<>>
  /\ \E s \in DOMAIN serverQueues : serverQueues[s] # <<>>

\* a is b with some elements left out, the others in the same order
IsSubSeqOf(a, b) ==
  \E keep \in SUBSET (1..Len(b)) :
    /\ Cardinality(keep) = Len(a)
    /\ \A i \in 1..Len(a) :
         a[i] = b[CHOOSE k \in keep : Cardinality({j \in keep : j < k}) = i - 1]

(* C8: an acknowledge on D removes from D's queue exactly the named ids    *)
(* that are there, keeps every other command in place and order, leaves    *)
(* the other queues alone (so naming an unknown id, an id already removed  *)
(* or an id queued elsewhere does nothing), answers with the size of D's   *)
(* queue after the removal, and done twice leaves the state of once.       *)
C8_AckRemovesNamed ==
  [][(Step("ack") /\ last'.status = 200) =>
       LET D == last'.serverId
           old == QueueOf(serverQueues, D)
       IN /\ D \in DOMAIN serverQueues'
          /\ QueueIds(serverQueues'[D]) = QueueIds(old) \ last'.ackIds
          /\ IsSubSeqOf(serverQueues'[D], old)
          /\ last'.remaining = Len(serverQueues'[D])
          /\ DOMAIN serverQueues' = DOMAIN serverQueues \cup {D}
          /\ \A s \in DOMAIN serverQueues \ {D} : serverQueues'[s] = serverQueues[s]
          /\ userToServer' = userToServer /\ globalActions' = globalActions
          /\ (last.op = "ack" /\ last.status = 200 /\ last.serverId = D
                /\ last.ackIds = last'.ackIds) => serverQueues' = serverQueues]_vars

\* an acknowledge named an issued id and an id never issued, and a command stays
C8_Witness ==
  /\ last.op = "ack" /\ last.status = 200
  /\ last.remaining >= 1
  /\ \E id \in last.ackIds : id < nextId /\ id \notin AllQueuedIds(serverQueues)
  /\ \E id \in last.ackIds : id >= nextId

(* C9: a presence report overwrites the entry of every listed user with    *)
(* the reporting destination and the current time and leaves the entries   *)
(* of the other users as they were; a lookup answers with the entry, so    *)
(* after reports from D1 and then D2 it answers D2.                        *)
C9_LastWriteWins ==
  /\ [][(Step("register") /\ last'.status = 200) =>
          \A u \in Users :
            IF u \in last'.players
              THEN /\ Str(u) \in DOMAIN userToServer'
                   /\ userToServer'[Str(u)] =
                        [serverId |-> last'.serverId, lastSeenMs |-> now]
              ELSE /\ Str(u) \in DOMAIN userToServer' <=> Str(u) \in DOMAIN userToServer
                   /\ Str(u) \in DOMAIN userToServer =>
                        userToServer'[Str(u)] = userToServer[Str(u)]]_vars
  /\ [](last.op = "whois" =>
          /\ last.status = 200 <=> Str(last.userId) \in DOMAIN userToServer
          /\ last.status = 200 =>
               /\ last.serverId = userToServer[Str(last.userId)].serverId
               /\ last.lastSeenMs = userToServer[Str(last.userId)].lastSeenMs)

\* a lookup answered the second destination for a user reported after the other
C9_Witness ==
  /\ last.op = "whois" /\ last.status = 200
  /\ last.userId = 1 /\ last.serverId = "s2"
  /\ "2" \in DOMAIN userToServer
  /\ userToServer["2"].serverId = "s1"
  /\ userToServer["2"].lastSeenMs < last.lastSeenMs

(* C10: when /command finds a fresh presence entry it creates one command  *)
(* with an id no command had before and with the mapped destination, adds  *)
(* it at the end of that destination's queue only, and answers with that   *)
(* destination id and that command id.                                     *)
C10_FreshEnqueuesOne ==
  /\ [][(CmdStep /\ FreshEntry(Str(last'.userId))) =>
          /\ EnqueuedOn(userToServer[Str(last'.userId)].serverId)
          /\ ~last'.offline]_vars
  /\ [](\A s \in DOMAIN serverQueues :
          /\ \A i \in 1..Len(serverQueues[s]) : serverQueues[s][i].id < nextId
          /\ Cardinality(QueueIds(serverQueues[s])) = Len(serverQueues[s]))

\* a command was added behind an older one while another queue holds a command
C10_Witness ==
  /\ last.op = "command" /\ last.status = 200 /\ ~last.offline
  /\ FreshEntry(Str(last.userId))
  /\ \E s \in DOMAIN serverQueues \ {last.routedServerId} : serverQueues[s] # <<>>
  /\ serverQueues[last.routedServerId][Len(serverQueues[last.routedServerId])].id
       = last.commandId

(* C11: every command id is in at most one destination queue, and a        *)
(* command in the queue of destination D carries serverId = D, whatever    *)
(* presence reports, commands, polls and acknowledges came before, also    *)
(* when the user has moved to another destination since the enqueue.       *)
C11_OneDestination ==
  /\ \A s \in DOMAIN serverQueues :
       \A i \in 1..Len(serverQueues[s]) : serverQueues[s][i].serverId = s
  /\ \A s, t \in DOMAIN serverQueues :
       s # t => QueueIds(serverQueues[s]) \cap QueueIds(serverQueues[t]) = {}

\* both queues hold a command, one of them for a user who is now on the other server
C11_Witness ==
  /\ \A s \in Servers : QueueOf(serverQueues, s) # <<>>
  /\ \E s \in DOMAIN serverQueues :
       \E i \in 1..Len(serverQueues[s]) :
         LET key == Str(serverQueues[s][i].userId)
         IN key \in DOMAIN userToServer /\ userToServer[key].serverId # s

(* C12: a queued command leaves its queue only in an acknowledge on its    *)
(* own destination that names its id; every other step (poll, presence     *)
(* report, /command, global-action poll, acknowledge elsewhere, the clock) *)
(* keeps it queued there with all its fields.                              *)
C12_OnlyAckRemoves ==
  [][\A s \in DOMAIN serverQueues :
       \A i \in 1..Len(serverQueues[s]) :
         LET c == serverQueues[s][i]
         IN \/ c \in SeqRange(QueueOf(serverQueues', s))
            \/ /\ Step("ack") /\ last'.status = 200
               /\ last'.serverId = s
               /\ c.id \in last'.ackIds]_vars

\* an acknowledge on another destination named the id of a command that is
\* still queued, long after it was issued and after its user moved away
C12_Witness ==
  /\ last.op = "ack" /\ last.status = 200
  /\ \E s \in DOMAIN serverQueues \ {last.serverId} :
       \E i \in 1..Len(serverQueues[s]) :
         LET c == serverQueues[s][i]
         IN /\ c.id \in last.ackIds
            /\ now - c.issuedAt * 1000 > FreshMs

\* the ids of q grow along q: ids are issued in enqueue order
InEnqueueOrder(q) == \A i, j \in 1..Len(q) : i < j => q[i].id < q[j].id

(* C13: a poll of D answers the first 25 commands pending on D (all of     *)
(* them when fewer are pending) in enqueue order and changes the contents  *)
(* of no queue; a poll right after a poll of the same D answers the same   *)
(* sequence, and an enqueue puts the new command behind the pending ones,  *)
(* so a later poll answers the earlier commands followed by the new ones.  *)
C13_PollReadsFirstPage ==
  /\ []((last.op = "poll" /\ last.status = 200) =>
          /\ LET q == QueueOf(serverQueues, last.serverId)
             IN last.commands = SubSeq(q, 1, IF Len(q) > 25 THEN 25 ELSE Len(q))
          /\ Len(last.commands) <= 25
          /\ InEnqueueOrder(last.commands))
  /\ [](\A s \in DOMAIN serverQueues : InEnqueueOrder(serverQueues[s]))
  /\ [][last'.op = "poll" =>
          /\ \A s \in Servers : QueueOf(serverQueues', s) = QueueOf(serverQueues, s)
          /\ userToServer' = userToServer /\ globalActions' = globalActions
          /\ (last.op = "poll" /\ last.status = 200 /\ last'.serverId = last.serverId)
                => last'.commands = last.commands]_vars
  /\ [][\A s \in DOMAIN serverQueues :
          Len(QueueOf(serverQueues', s)) > Len(serverQueues[s]) =>
            SubSeq(serverQueues'[s], 1, Len(serverQueues[s])) = serverQueues[s]]_vars

\* a poll answered commands 2 to 26 of 27 issued: the first was acknowledged,
\* the last waits for the next page
C13_Witness ==
  /\ last.op = "poll" /\ last.status = 200
  /\ Len(last.commands) = PageSize
  /\ last.commands[1].id = 2
  /\ last.commands[PageSize].id = PageSize + 1
  /\ Len(serverQueues[last.serverId]) = PageSize + 1

(* C18: the offline store holds one action per user, of type ban or unban; *)
(* a kick / unban that passes validation replaces whatever was stored for  *)
(* that user by its own action (ban for kick, unban for unban), and the    *)
(* next global-action poll for the user answers that action alone.         *)
C18_StoreLastWriteWins ==
  /\ [](\A k \in DOMAIN globalActions : globalActions[k].type \in {"ban", "unban"})
  /\ [][(CmdStep /\ last'.action \in {"kick", "unban"}) =>
          LET key == Str(last'.userId)
          IN /\ key \in DOMAIN globalActions'
             /\ globalActions'[key] =
                  [type |-> IF last'.action = "kick" THEN "ban" ELSE "unban",
                   reason |-> IF last'.action = "kick" THEN "Rule violation" ELSE "Unbanned",
                   moderator |-> "Discord",
                   timestamp |-> now \div 1000]
             /\ \A k \in DOMAIN globalActions' \ {key} :
                  k \in DOMAIN globalActions /\ globalActions'[k] = globalActions[k]]_vars
  /\ [][(Step("globalAction") /\ last'.status = 200
            /\ Str(last'.userId) \in DOMAIN globalActions) =>
          last'.action = <<globalActions[Str(last'.userId)]>>]_vars

\* a kick and then an unban were issued for a mapped user (both are queued), and
\* the global-action poll answered the unban
C18_Witness ==
  /\ last.op = "globalAction" /\ last.status = 200
  /\ last.action # <<>>
  /\ last.action[1].type = "unban"
  /\ \E s \in DOMAIN serverQueues :
       \E i, j \in 1..Len(serverQueues[s]) :
         /\ i < j
         /\ serverQueues[s][i].userId = last.userId /\ serverQueues[s][i].action = "kick"
         /\ serverQueues[s][j].userId = last.userId /\ serverQueues[s][j].action = "unban"

(* ------------------------- claims on the ban ledger --------------------- *)
\* this step handled a ban check / a ledger write that passed validation
BanCheckStep == Step("banCheck") /\ last'.status # 400

JoinRow(l) == [network_id |-> l.networkId, user_id |-> l.userId]

\* the other rows of bans are as before
OtherBansKept(l) ==
  bans' \ SelectBan(bans', l.networkId, l.userId)
    = bans \ SelectBan(bans, l.networkId, l.userId)

(* C14 as stated: every ban check that passes validation appends exactly   *)
(* one join attempt row, banned or not, also when the ban read fails (the  *)
(* audit write itself not failing).                                        *)
C14_AuditNeverSkipped ==
  [][(BanCheckStep /\ last'.db # "write_failed") =>
       joinAttempts' = Append(joinAttempts, JoinRow(last'))]_vars

\* the ban read failed for a banned user and no join attempt was recorded
C14_Witness ==
  /\ last.op = "banCheck" /\ last.status = 500 /\ last.db = "read_failed"
  /\ SelectBan(bans, last.networkId, last.userId) # {}
  /\ joinAttempts = <<>>

(* C15: a ban check whose ban read or audit write fails ends rejected and  *)
(* answers no banned field; banned = false is answered only when both      *)
(* statements succeeded, no row of bans matches (networkId, userId) and    *)
(* the join attempt row was appended.                                      *)
C15_FailClosed ==
  [][BanCheckStep =>
       /\ last'.db # "ok" => (last'.status = 500 /\ "banned" \notin DOMAIN last')
       /\ last'.db = "ok" => last'.status = 200
       /\ (last'.status = 200 /\ ~last'.banned) =>
            /\ last'.db = "ok"
            /\ SelectBan(bans, last'.networkId, last'.userId) = {}
            /\ joinAttempts' = Append(joinAttempts, JoinRow(last'))]_vars

\* the audit write failed for a user who is not banned: the check was rejected
C15_Witness ==
  /\ last.op = "banCheck" /\ last.status = 500 /\ last.db = "write_failed"
  /\ SelectBan(bans, last.networkId, last.userId) = {}
  /\ bans # {}

(* C16: a successful /ban/add leaves exactly one row for (net, u), with    *)
(* the reason and moderator of this call, whatever row was there before; a *)
(* successful ban check answers banned = true with that row's reason       *)
(* exactly when a row exists; a successful /ban/remove leaves no row for   *)
(* (net, u) and changes nothing when there was none.                       *)
C16_BanUpsert ==
  /\ [][(Step("banAdd") /\ last'.status = 200) =>
          /\ SelectBan(bans', last'.networkId, last'.userId) =
               {BanRow(last'.networkId, last'.userId, last'.reason, last'.moderator, now)}
          /\ OtherBansKept(last')]_vars
  /\ [][(Step("banCheck") /\ last'.status = 200) =>
          LET found == SelectBan(bans, last'.networkId, last'.userId)
          IN /\ last'.banned <=> found # {}
             /\ last'.banned => \A r \in found : last'.reason = r.reason
             /\ bans' = bans]_vars
  /\ [][(Step("banRemove") /\ last'.status = 200) =>
          /\ SelectBan(bans', last'.networkId, last'.userId) = {}
          /\ OtherBansKept(last')
          /\ last'.prior = {} => bans' = bans]_vars

\* a second /ban/add replaced the reason and the moderator of the row
C16_Witness ==
  /\ last.op = "banAdd" /\ last.status = 200
  /\ last.reason = "r2" /\ last.moderator = "m2"
  /\ \E r \in last.prior : r.reason # "r2" /\ r.moderator # "m2"
  /\ Cardinality(SelectBan(bans, last.networkId, last.userId)) = 1
  /\ Cardinality(bans) = 2

(* C17 as stated: through /ban/add, the slash command /ban and the prefix  *)
(* command !ban alike, a ban of a user already banned on the network       *)
(* leaves one row for (network, user) with the reason and the moderator of *)
(* this call.                                                              *)
C17_EveryBanOverwrites ==
  [][(calls' = calls + 1 /\ last'.op \in {"banAdd", "slashBan", "prefixBan"}
        /\ last'.status = 200 /\ last'.prior # {}) =>
       \E r \in bans' :
         /\ SelectBan(bans', last'.networkId, last'.userId) = {r}
         /\ r.reason = last'.reason
         /\ r.moderator = last'.moderator]_vars

\* !ban answered for a user already banned, and the row still has the old reason
C17_Witness ==
  /\ last.op = "prefixBan" /\ last.status = 200
  /\ last.prior # {}
  /\ \A r \in SelectBan(bans, last.networkId, last.userId) :
       r.reason # last.reason /\ r.moderator # last.moderator

(* --------------------- claims on the request boundary ------------------- *)
\* the in-memory change that the response l reports on is in the next state
Applied(l) ==
  CASE l.op = "register" ->
         \A u \in l.players \ {0} :
           /\ Str(u) \in DOMAIN userToServer'
           /\ userToServer'[Str(u)] = [serverId |-> l.serverId, lastSeenMs |-> now]
    [] l.op = "command" ->
         IF l.offline
           THEN /\ Str(l.userId) \in DOMAIN globalActions'
                /\ globalActions'[Str(l.userId)].timestamp = now \div 1000
           ELSE l.commandId \in QueueIds(QueueOf(serverQueues', l.routedServerId))
    [] l.op = "banCheck" -> joinAttempts' = Append(joinAttempts, JoinRow(l))
    [] OTHER -> FALSE

(* C19: when a handler starts to await its notification the in-memory      *)
(* change it reports on is already applied and its response is fixed; when *)
(* the notification ends, sent or failed, no map and no table changes and  *)
(* the response sent is the one fixed before, a success.                   *)
C19_SinkFailuresSwallowed ==
  /\ [][Len(awaiting') > Len(awaiting) =>
          /\ awaiting' = Append(awaiting, last')
          /\ last'.status = 200
          /\ Applied(last')]_vars
  /\ [][Len(awaiting') < Len(awaiting) =>
          /\ sinkOutcome' \in {"sent", "failed"}
          /\ replied' \in SeqRange(awaiting)
          /\ replied'.status = 200
          /\ UNCHANGED <<userToServer, serverQueues, globalActions, bans, joinAttempts>>]_vars
  /\ [](replied.status \notin {0, 400, 404} => replied.status = 200)

\* a notification failed, the command it was about is queued and was answered
\* as routed, while another handler still awaits its notification
C19_Witness ==
  /\ sinkOutcome = "failed"
  /\ replied.op = "command" /\ replied.status = 200 /\ ~replied.offline
  /\ replied.commandId \in QueueIds(QueueOf(serverQueues, replied.routedServerId))
  /\ awaiting # <<>>

\* this step handled a request that carries the secret, a nonce and a timestamp
NonceStep ==
  /\ calls' = calls + 1
  /\ gate'.auth = "S" /\ gate'.nonce # "" /\ gate'.ts # ""

RelayKept == UNCHANGED <<userToServer, serverQueues, globalActions, nextId>>

(* C20 as stated: a request with a nonce and a timestamp whose nonce an    *)
(* earlier accepted request carried is rejected and runs no core           *)
(* operation, at whatever later time it arrives and whether or not the     *)
(* nonce state was collected in between.                                   *)
C20_ReusedNonceAlwaysRejected ==
  [][(NonceStep /\ gate.verdict = "next" /\ gate.ts # "" /\ gate'.nonce = gate.nonce) =>
       (gate'.verdict # "next" /\ RelayKept)]_vars

(* C20 (amended): a request with a wrong secret is rejected; a request     *)
(* with a nonce and a timestamp is rejected when the timestamp is more     *)
(* than 60 s from the server clock or when the nonce state still holds the *)
(* nonce; a rejected request runs no core operation; an accepted nonce is  *)
(* held with an expiry 120 s ahead and the collection removes only nonces  *)
(* whose expiry has passed.                                                *)
C20_ReplayWhileRemembered ==
  /\ [][(calls' = calls + 1) =>
          /\ gate'.auth # "S" => gate'.verdict = "unauthorized"
          /\ gate'.verdict # "next" =>
               (last'.status \in {400, 401} /\ RelayKept /\ seenNonces' = seenNonces)]_vars
  /\ [][NonceStep =>
          /\ (gate'.ts \in {"0", "120"}
                /\ Abs(now \div 1000 - (IF gate'.ts = "0" THEN 0 ELSE 120)) > 60)
               => gate'.verdict = "stale"
          /\ gate'.nonce \in DOMAIN seenNonces => gate'.verdict # "next"
          /\ gate'.verdict = "next" =>
               /\ gate'.nonce \in DOMAIN seenNonces'
               /\ seenNonces'[gate'.nonce] = now + 120000
               /\ \A n \in DOMAIN seenNonces :
                    n \in DOMAIN seenNonces' /\ seenNonces'[n] = seenNonces[n]]_vars
  /\ [][\A n \in DOMAIN seenNonces :
          \/ n \in DOMAIN seenNonces' /\ seenNonces'[n] = seenNonces[n]
          \/ seenNonces[n] <= now]_vars

\* the same nonce and timestamp came again 60 s later: replay detected, although
\* the timestamp is still in the window
C20_Witness ==
  /\ gate.verdict = "replay"
  /\ gate.ts = "0" /\ now = 60000
  /\ last.op = "verify" /\ last.status = 401
  /\ userToServer # <<>>

(* C21 as stated: whenever /command answers offline = true for user u,     *)
(* whatever the accepted action (ban and kick included), the offline store *)
(* holds an action for u right after the call.                             *)
C21_OfflineAnswerMeansStored ==
  [][(CmdStep /\ last'.status = 200 /\ last'.offline) =>
       Str(last'.userId) \in DOMAIN globalActions']_vars

\* a ban was answered offline and neither a queue nor the store holds anything
C21_Witness ==
  /\ last.op = "command" /\ last.status = 200 /\ last.action = "ban"
  /\ last.offline
  /\ Str(last.userId) \notin DOMAIN globalActions
  /\ \A s \in DOMAIN serverQueues : serverQueues[s] = <<>>
  /\ calls > 1

(* C22: when the destination keeps polling and acknowledges each page it   *)
(* got, every command queued for it is eventually in a page it got and is  *)
(* eventually gone from the queue, also with more than 25 pending and with *)
(* commands coming in between the polls.                                   *)
C22_EveryCommandDelivered ==
  \A id \in 1..MaxLiveCmds :
    /\ (id \in QueueIds(QueueOf(serverQueues, "s1"))) ~> (id \in QueueIds(polled))
    /\ (id \in QueueIds(QueueOf(serverQueues, "s1")))
         ~> (id \notin QueueIds(QueueOf(serverQueues, "s1")))

\* the 26th command, left out of the first page, is in the page the destination has
C22_Witness ==
  /\ PageSize + 1 \in QueueIds(polled)
  /\ 1 \notin QueueIds(polled)
  /\ PageSize + 1 \in QueueIds(QueueOf(serverQueues, "s1"))

\* the response l reports a command routed to a destination
Routed(l) == l.op = "command" /\ l.status = 200 /\ ~l.offline

(* C23: the step of /command that enqueues reads the presence entry and    *)
(* enqueues in one, so the command goes to the queue of the destination    *)
(* the presence map holds for the user in that very state and the response *)
(* names that destination; presence reports that come in while the handler *)
(* awaits its notification change neither the queue nor the response.      *)
C23_EnqueueOnCurrentDestination ==
  /\ [][(calls' = calls + 1 /\ Routed(last')) =>
          LET key == Str(last'.userId)
              D == userToServer'[key].serverId
          IN /\ userToServer' = userToServer
             /\ last'.routedServerId = D
             /\ last'.commandId \notin AllQueuedIds(serverQueues)
             /\ D \in DOMAIN serverQueues'
             /\ \E i \in 1..Len(serverQueues'[D]) :
                  /\ serverQueues'[D][i].id = last'.commandId
                  /\ serverQueues'[D][i].serverId = D]_vars
  /\ [](\A l \in SeqRange(awaiting) \cup {replied} :
          Routed(l) => l.commandId \in QueueIds(QueueOf(serverQueues, l.routedServerId)))

\* a presence report moved the user while the handler awaited its notification:
\* the response names the destination of the enqueue, where the command is
C23_Witness ==
  /\ Routed(replied)
  /\ userToServer[Str(replied.userId)].serverId # replied.routedServerId
  /\ replied.commandId \in QueueIds(QueueOf(serverQueues, replied.routedServerId))

WarnFields == {"imageA", "imageB", "interval"}

(* C24: a queued command has the fields imageA, imageB and interval        *)
(* exactly when its action is warn; a warn takes them from the request,    *)
(* with WARNING_A, WARNING_B and 0.35 for those the request left out; a    *)
(* command of another action has none of them, whatever the request had.   *)
C24_WarnFieldsOnlyOnWarn ==
  /\ [](\A s \in DOMAIN serverQueues :
          \A i \in 1..Len(serverQueues[s]) :
            LET c == serverQueues[s][i]
            IN IF c.action = "warn"
                 THEN WarnFields \subseteq DOMAIN c
                 ELSE WarnFields \cap DOMAIN c = {})
  /\ [][(last'.op = "command" /\ nextId' = nextId + 1) =>
          \E s \in DOMAIN serverQueues' :
            LET c == serverQueues'[s][Len(serverQueues'[s])]
            IN /\ c.id = nextId
               /\ c.action = last'.action
               /\ c.action = "warn" =>
                    /\ c.imageA = (IF last'.imageA = "" THEN "WARNING_A" ELSE last'.imageA)
                    /\ c.imageB = (IF last'.imageB = "" THEN "WARNING_B" ELSE last'.imageB)
                    /\ c.interval = (IF last'.interval = 0 THEN 35 ELSE last'.interval)]_vars

\* a kick whose request had all three fields is queued behind a warn that had none
C24_Witness ==
  /\ last.op = "command" /\ last.status = 200 /\ last.action = "kick"
  /\ last.imageA # "" /\ last.imageB # "" /\ last.interval # 0
  /\ Len(QueueOf(serverQueues, "s1")) = 2
  /\ serverQueues["s1"][1].action = "warn"
  /\ serverQueues["s1"][1].imageA = "WARNING_A"
  /\ serverQueues["s1"][1].interval = 35
  /\ serverQueues["s1"][2].id = last.commandId

\* this step handled a /command of src/index.js that queued a command and whose
\* insert into moderation_actions failed
AuditFailed ==
  /\ Step("command")
  /\ nextId' = nextId + 1
  /\ moderationActions' = moderationActions

C25_Kept ==
  /\ last.op = "poll" /\ last.status = 200 /\ QueueIds(last.commands) = {1}
  /\ nextId = 2
  /\ moderationActions = <<>>

====
